---- MODULE Spec2Model ----
(***************************************************************************)
(* Model of frontend/serve.py: a development HTTP server built on          *)
(* http.server.SimpleHTTPRequestHandler and socketserver.TCPServer.        *)
(*                                                                         *)
(* Strings that the code inspects character-wise (request targets) are     *)
(* sequences of tokens: "/" is the one-character separator, a name token   *)
(* is a run of characters without "/" or "?", a query token is "?" and     *)
(* what follows it.  startswith, [1:], split('?') and unquote are defined  *)
(* on these sequences.                                                     *)
(***************************************************************************)
EXTENDS Integers, Sequences, FiniteSets, TLC

VARIABLES
  pc,         \* where main is: "start", "chdir", "bind", "serving", "stopped" (main returned), "exited" (sys.exit or uncaught exception)
  rootKind,   \* what is at frontend_dir: "missing", "dir" or "file"
  files,      \* contents of the document root
  cwd,        \* working directory of the process
  sock,       \* listening socket: "none", "listening", "closed"
  out,        \* what main has printed
  exitCode,   \* exit status of the process, -1 while it runs
  bindError,  \* the OSError the TCPServer constructor raised, if any
  log         \* the exchanges of the accept loop, oldest first

vars == <<pc, rootKind, files, cwd, sock, out, exitCode, bindError, log>>

\* Number of requests one run of the accept loop handles in the model.
MaxRequests == 2

\* The same, in the runs that send versioned GET requests only.
MaxGets == 3

\* main: frontend_dir
FrontendDir == "/Users/bcumbie/Desktop/sobie-dev/sobieNode/frontend"

\* The directory the process is started in (anything but FrontendDir).
StartDir == "/launch-dir"

\* main: "if e.errno == 48"
ADDR_IN_USE_ERRNO == 48

---------------------------------------------------------------------------
(* Request targets *)

QueryTokens == {"?v=1"}

\* Targets a client sends in the model.
Paths ==
  { <<"/">>,
    <<"/", "index.html">>,
    <<"/", "index.html", "?v=1">>,
    <<"/", "public", "/", "research.html">>,
    <<"/", "public", "/", "research.html", "?v=1">>,
    <<"/", "public", "/", "research%2Ehtml">>,
    <<"/", "public", "/">>,
    <<"/", "user", "/", "dashboard">>,
    <<"/", "admin", "/", "panel">>,
    <<"/", "favicon.ico">> }

Methods == {"GET", "OPTIONS", "POST"}

\* "HTTP/0.9" stands for a request line without a version (two words).
Versions == {"HTTP/1.1", "HTTP/0.9"}

Requests == [method : Methods, path : Paths, version : Versions]

IndexPath == <<"/", "index.html">>

\* str.startswith
StartsWith(s, prefix) ==
  /\ Len(s) >= Len(prefix)
  /\ SubSeq(s, 1, Len(prefix)) = prefix

\* str.endswith('/')
EndsWithSlash(s) == s # <<>> /\ s[Len(s)] = "/"

\* The name components of a token sequence.
Components(s) == SelectSeq(s, LAMBDA t : t # "/")

---------------------------------------------------------------------------
(* The document root on disk *)

Entries ==
  { <<"index.html">>, <<"public">>, <<"public", "research.html">> }

\* Contents the document root can have: which entries exist, and as what.
FileSystems ==
  { fs \in [Entries -> {"none", "file", "dir"}] :
      /\ fs[<<"index.html">>] \in {"none", "file"}
      /\ fs[<<"public">>] \in {"none", "dir"}
      /\ fs[<<"public", "research.html">>] \in {"none", "file"}
      /\ (fs[<<"public", "research.html">>] = "file" => fs[<<"public">>] = "dir") }

\* What is at the given components below the document root.
KindOf(fs, comps) ==
  IF comps = <<>> THEN "dir"
  ELSE IF comps \in DOMAIN fs THEN fs[comps]
  ELSE "none"

\* os.path.exists(rel) with the document root as working directory.  rel is
\* taken literally: a query token is part of the last file name, an escape
\* is not decoded, and no entry of the root has such a name.  A trailing "/"
\* names a directory.
OsPathExists(fs, rel) ==
  IF rel = <<>> THEN FALSE
  ELSE LET k == KindOf(fs, Components(rel))
       IN  IF EndsWithSlash(rel) THEN k = "dir" ELSE k # "none"

---------------------------------------------------------------------------
(* CORSHTTPRequestHandler *)

CORSHeaders ==
  << <<"Access-Control-Allow-Origin", "*">>,
     <<"Access-Control-Allow-Methods", "GET, POST, PUT, DELETE, OPTIONS">>,
     <<"Access-Control-Allow-Headers", "Content-Type, Authorization">> >>

\* BaseHTTPRequestHandler.send_header: buffers the header unless the request
\* came without an HTTP version.
SendHeaders(version, hdrs, more) ==
  IF version # "HTTP/0.9" THEN hdrs \o more ELSE hdrs

\* end_headers that forgets the Access-Control-Allow-Headers line.
EndHeadersPartial(version, hdrs) ==
  SendHeaders(version, hdrs, SubSeq(CORSHeaders, 1, 2))

\* CORSHTTPRequestHandler.end_headers: three send_header calls, then the
\* inherited end_headers, which flushes the buffer to the connection.
EndHeaders(version, hdrs) == SendHeaders(version, hdrs, CORSHeaders)

EmptyBody == [kind |-> "empty", of |-> <<>>]
ErrorPage == [kind |-> "error_page", of |-> <<>>]
Listing(comps) == [kind |-> "listing", of |-> comps]
FileBody(comps) == [kind |-> "file", of |-> comps]

\* send_response(code), the given send_header calls, end_headers(), body.
\* statusLine tells whether a status line and headers go out at all.
Respond(version, code, more, body) ==
  LET h0 == SendHeaders(version, <<>>, << <<"Server", "SimpleHTTP">>, <<"Date", "now">> >>)
      h1 == SendHeaders(version, h0, more)
  IN  [status |-> code,
       statusLine |-> version # "HTTP/0.9",
       headers |-> EndHeaders(version, h1),
       body |-> body]

\* BaseHTTPRequestHandler.send_error
SendError(version, code) ==
  Respond(version, code,
          << <<"Connection", "close">>, <<"Content-Type", "text/html">>,
             <<"Content-Length", "n">> >>,
          ErrorPage)

\* do_OPTIONS that looks the target up before it answers.
DoOPTIONSChecked(req) ==
  [req |-> req, served |-> <<>>,
   fsOps |-> << [op |-> "exists", arg |-> Tail(req.path)] >>,
   resp |-> Respond(req.version, 200, <<>>, EmptyBody)]

\* do_OPTIONS
DoOPTIONS(req) ==
  [req |-> req, served |-> <<>>, fsOps |-> <<>>,
   resp |-> Respond(req.version, 200, <<>>, EmptyBody)]

SpaPrefixes ==
  << <<"/", "public", "/">>, <<"/", "user", "/">>, <<"/", "admin", "/">> >>

\* The chain without its "/admin/" branch.
RewritePathNoAdmin(path, fs) ==
  IF path = <<"/">> \/ path = IndexPath THEN IndexPath
  ELSE IF StartsWith(path, SpaPrefixes[1]) /\ ~OsPathExists(fs, Tail(path))
    THEN IndexPath
  ELSE IF StartsWith(path, SpaPrefixes[2]) /\ ~OsPathExists(fs, Tail(path))
    THEN IndexPath
  ELSE path

\* The chain without its first branch.
RewritePathNoRoot(path, fs) ==
  IF \E i \in 1..3 : StartsWith(path, SpaPrefixes[i]) /\ ~OsPathExists(fs, Tail(path))
    THEN IndexPath
    ELSE path

\* A chain that falls back to the root document for every missing target,
\* whatever its prefix.
RewritePathAnyMissing(path, fs) ==
  IF path = <<"/">> \/ path = IndexPath THEN IndexPath
  ELSE IF ~OsPathExists(fs, Tail(path)) THEN IndexPath
  ELSE path

\* do_GET, the if/elif chain: the path handed to the inherited do_GET.
RewritePath(path, fs) ==
  IF path = <<"/">> \/ path = IndexPath THEN IndexPath
  ELSE IF StartsWith(path, SpaPrefixes[1]) /\ ~OsPathExists(fs, Tail(path))
    THEN IndexPath
  ELSE IF StartsWith(path, SpaPrefixes[2]) /\ ~OsPathExists(fs, Tail(path))
    THEN IndexPath
  ELSE IF StartsWith(path, SpaPrefixes[3]) /\ ~OsPathExists(fs, Tail(path))
    THEN IndexPath
  ELSE path

\* do_GET: the os.path.exists calls the chain makes ("and" short-circuits).
RewriteChecks(path) ==
  IF path = <<"/">> \/ path = IndexPath THEN <<>>
  ELSE IF \E i \in 1..3 : StartsWith(path, SpaPrefixes[i])
    THEN << [op |-> "exists", arg |-> Tail(path)] >>
  ELSE <<>>

\* urllib.parse.unquote on one token: %2E is ".".
Unquote(tok) == IF tok = "research%2Ehtml" THEN "research.html" ELSE tok

\* path.split('?', 1)[0]
StripQuery(path) ==
  IF \E i \in DOMAIN path : path[i] \in QueryTokens
    THEN SubSeq(path, 1, (CHOOSE i \in DOMAIN path :
                            /\ path[i] \in QueryTokens
                            /\ \A j \in 1..(i - 1) : path[j] \notin QueryTokens) - 1)
    ELSE path

\* SimpleHTTPRequestHandler.translate_path: the file below the document root
\* a target names (the modelled targets have no "." or ".." components).
TranslatePath(path) ==
  LET p == StripQuery(path)
  IN  [comps |-> [i \in DOMAIN Components(p) |-> Unquote(Components(p)[i])],
       slash |-> EndsWithSlash(p)]

\* SimpleHTTPRequestHandler.send_head followed by the copy of the file.
SendHead(version, path, fs) ==
  LET t == TranslatePath(path)
      isdir == [op |-> "isdir", arg |-> t.comps]
      idx1 == Append(t.comps, "index.html")
      idx2 == Append(t.comps, "index.htm")
      file(comps) ==
        IF KindOf(fs, comps) = "file"
          THEN Respond(version, 200,
                       << <<"Content-type", "guessed">>, <<"Content-Length", "n">>,
                          <<"Last-Modified", "mtime">> >>,
                       FileBody(comps))
          ELSE SendError(version, 404)
  IN  IF KindOf(fs, t.comps) = "dir"
        THEN IF ~t.slash
               THEN [fsOps |-> <<isdir>>,
                     resp |-> Respond(version, 301,
                                << <<"Location", "slash">>, <<"Content-Length", "0">> >>,
                                EmptyBody)]
             ELSE IF KindOf(fs, idx1) = "file"
               THEN [fsOps |-> <<isdir, [op |-> "isfile", arg |-> idx1],
                                 [op |-> "open", arg |-> idx1]>>,
                     resp |-> file(idx1)]
             ELSE IF KindOf(fs, idx2) = "file"
               THEN [fsOps |-> <<isdir, [op |-> "isfile", arg |-> idx1],
                                 [op |-> "isfile", arg |-> idx2],
                                 [op |-> "open", arg |-> idx2]>>,
                     resp |-> file(idx2)]
             ELSE [fsOps |-> <<isdir, [op |-> "isfile", arg |-> idx1],
                               [op |-> "isfile", arg |-> idx2],
                               [op |-> "listdir", arg |-> t.comps]>>,
                   resp |-> Respond(version, 200,
                              << <<"Content-type", "text/html">>,
                                 <<"Content-Length", "n">> >>,
                              Listing(t.comps))]
      ELSE IF t.slash
        THEN [fsOps |-> <<isdir>>, resp |-> SendError(version, 404)]
      ELSE [fsOps |-> <<isdir, [op |-> "open", arg |-> t.comps]>>,
            resp |-> file(t.comps)]

\* do_GET whose rewritten path outlives the request: once a request has been
\* rewritten, the next one is served the root document too.
DoGETSticky(req, fs) ==
  LET sticky == log # <<>> /\ log[Len(log)].served = IndexPath
                           /\ log[Len(log)].req.path # IndexPath
      served == IF sticky THEN IndexPath ELSE RewritePath(req.path, fs)
      head == SendHead(req.version, served, fs)
  IN  [req |-> req, served |-> served,
       fsOps |-> RewriteChecks(req.path) \o head.fsOps,
       resp |-> head.resp]

\* do_GET
DoGET(req, fs) ==
  LET served == RewritePath(req.path, fs)
      head == SendHead(req.version, served, fs)
  IN  [req |-> req, served |-> served,
       fsOps |-> RewriteChecks(req.path) \o head.fsOps,
       resp |-> head.resp]

\* BaseHTTPRequestHandler.handle_one_request: parse_request, then dispatch to
\* do_<command>.  A request line without a version must be a GET; while it
\* is parsed request_version is "HTTP/0.9", also for its error response.
HandleOneRequest(req, fs) ==
  IF req.version = "HTTP/0.9" /\ req.method # "GET"
    THEN [req |-> req, served |-> <<>>, fsOps |-> <<>>,
          resp |-> SendError("HTTP/0.9", 400)]
  ELSE IF req.method = "GET" THEN DoGET(req, fs)
  ELSE IF req.method = "OPTIONS" THEN DoOPTIONS(req)
  ELSE [req |-> req, served |-> <<>>, fsOps |-> <<>>,
        resp |-> SendError(req.version, 501)]

---------------------------------------------------------------------------
(* main *)


NoFiles == [e \in Entries |-> "none"]
NoError == [cause |-> "none", errno |-> 0]

\* errno of a failed bind: EADDRINUSE is 48 on macOS and the BSDs and 98 on
\* Linux; EACCES is 13 on all of them.
ErrnoOf(platform, cause) ==
  IF cause = "in_use"
    THEN (IF platform = "darwin" THEN 48 ELSE 98)
    ELSE 13

Platforms == {"darwin", "linux"}
BindFailures == {"in_use", "denied"}

Init ==
  /\ pc = "start"
  /\ rootKind \in {"missing", "dir", "file"}
  /\ files \in (IF rootKind = "dir" THEN FileSystems ELSE {NoFiles})
  /\ cwd = StartDir
  /\ sock = "none"
  /\ out = <<>>
  /\ exitCode = -1
  /\ bindError = NoError
  /\ log = <<>>

\* main without the sys.exit(1): a missing directory is reported and main
\* goes on.
CheckRootNoExit ==
  /\ pc = "start"
  /\ out' = IF rootKind = "missing" THEN Append(out, "frontend_dir_not_found") ELSE out
  /\ pc' = "chdir"
  /\ UNCHANGED <<rootKind, files, cwd, sock, exitCode, bindError, log>>

\* main: "if not os.path.exists(frontend_dir): print; sys.exit(1)"
CheckRoot ==
  /\ pc = "start"
  /\ IF rootKind = "missing"
       THEN /\ out' = Append(out, "frontend_dir_not_found")
            /\ exitCode' = 1
            /\ pc' = "exited"
       ELSE /\ pc' = "chdir"
            /\ UNCHANGED <<out, exitCode>>
  /\ UNCHANGED <<rootKind, files, cwd, sock, bindError, log>>

\* main: "os.chdir(frontend_dir); print".  chdir to something that is not a
\* directory raises outside the try block: traceback, exit status 1.
Chdir ==
  /\ pc = "chdir"
  /\ IF rootKind = "dir"
       THEN /\ cwd' = FrontendDir
            /\ out' = Append(out, "serving_from")
            /\ pc' = "bind"
            /\ UNCHANGED exitCode
       ELSE /\ out' = Append(out, "traceback")
            /\ exitCode' = 1
            /\ pc' = "exited"
            /\ UNCHANGED cwd
  /\ UNCHANGED <<rootKind, files, sock, bindError, log>>

\* main: "with socketserver.TCPServer(("", PORT), ...) as httpd:" succeeds,
\* the banner is printed and serve_forever is entered.
BindOk ==
  /\ pc = "bind"
  /\ sock' = "listening"
  /\ out' = Append(out, "banner")
  /\ pc' = "serving"
  /\ UNCHANGED <<rootKind, files, cwd, exitCode, bindError, log>>

\* main: "except OSError as e".  The constructor closes its socket and
\* raises; main prints one of two messages and returns.
OnOSError(errno) ==
  IF errno = ADDR_IN_USE_ERRNO THEN "port_in_use" ELSE "server_error"

BindFail ==
  /\ pc = "bind"
  /\ \E platform \in Platforms, cause \in BindFailures :
       /\ bindError' = [cause |-> cause, errno |-> ErrnoOf(platform, cause)]
       /\ out' = Append(out, OnOSError(ErrnoOf(platform, cause)))
  /\ sock' = "closed"
  /\ pc' = "stopped"
  /\ exitCode' = 0
  /\ UNCHANGED <<rootKind, files, cwd, log>>

\* One pass of serve_forever: a request is accepted and handled to the end
\* (socketserver.TCPServer handles requests one at a time).
Serve(reqs, max) ==
  /\ pc = "serving"
  /\ Len(log) < max
  /\ \E req \in reqs : log' = Append(log, HandleOneRequest(req, files))
  /\ UNCHANGED <<pc, rootKind, files, cwd, sock, out, exitCode, bindError>>

HandleRequest == Serve(Requests, MaxRequests)

\* main without "except KeyboardInterrupt": Ctrl+C ends the process with a
\* traceback.
InterruptUncaught ==
  /\ pc = "serving"
  /\ sock' = "closed"
  /\ out' = Append(out, "traceback")
  /\ pc' = "exited"
  /\ exitCode' = 130
  /\ UNCHANGED <<rootKind, files, cwd, bindError, log>>

\* main: "except KeyboardInterrupt": Ctrl+C during serve_forever leaves the
\* with block (server_close), prints, and main returns.
Interrupt ==
  /\ pc = "serving"
  /\ sock' = "closed"
  /\ out' = Append(out, "server_stopped")
  /\ pc' = "stopped"
  /\ exitCode' = 0
  /\ UNCHANGED <<rootKind, files, cwd, bindError, log>>

Next ==
  \/ CheckRoot
  \/ Chdir
  \/ BindOk
  \/ BindFail
  \/ HandleRequest
  \/ Interrupt

Spec == Init /\ [][Next]_vars

\* Runs whose clients send GET requests with an HTTP version only.
GetRequests == {r \in Requests : r.method = "GET" /\ r.version = "HTTP/1.1"}

HandleGet == Serve(GetRequests, MaxGets)

NextGets ==
  \/ CheckRoot
  \/ Chdir
  \/ BindOk
  \/ BindFail
  \/ HandleGet
  \/ Interrupt

SpecGets == Init /\ [][NextGets]_vars

---------------------------------------------------------------------------
(* Properties *)

Last(s) == s[Len(s)]

Exchanges == {log[i] : i \in DOMAIN log}

\* The response carries each CORS header, and no other value under its name.
HasCORS(r) ==
  \A j \in DOMAIN CORSHeaders :
    /\ \E k \in DOMAIN r.headers : r.headers[k] = CORSHeaders[j]
    /\ \A k \in DOMAIN r.headers :
         r.headers[k][1] = CORSHeaders[j][1] => r.headers[k] = CORSHeaders[j]

HasSpaPrefix(path) == \E i \in DOMAIN SpaPrefixes : StartsWith(path, SpaPrefixes[i])

IsRootPath(path) == path = <<"/">> \/ path = IndexPath

\* What the document root holds at the place a target names.
TargetKind(path) == KindOf(files, TranslatePath(path).comps)

IndexBody == FileBody(<<"index.html">>)

ServesIndexOr404(e) ==
  /\ e.served = IndexPath
  /\ IF files[<<"index.html">>] = "file"
       THEN e.resp.status = 200 /\ e.resp.body = IndexBody
       ELSE e.resp.status = 404 /\ e.resp.body = ErrorPage

\* C1, as stated: every response, whatever the method, path and status,
\* carries the three CORS headers with their exact values.
C1_EveryResponseHasCORS == \A e \in Exchanges : HasCORS(e.resp)

\* C1, amended: every response to a request line that names an HTTP version
\* carries the three CORS headers with their exact values; the response to
\* a request line without a version carries no header at all.
C1_VersionedResponsesHaveCORS ==
  \A e \in Exchanges :
    IF e.req.version # "HTTP/0.9"
      THEN e.resp.statusLine /\ HasCORS(e.resp)
      ELSE ~e.resp.statusLine /\ e.resp.headers = <<>>

C1_Witness ==
  /\ \E e \in Exchanges : e.resp.status = 404 /\ HasCORS(e.resp)
  /\ \E e \in Exchanges : e.resp.status = 501 /\ HasCORS(e.resp)

C3_ExistingFileServedUnrewritten ==
  \A e \in Exchanges :
    (e.req.method = "GET" /\ HasSpaPrefix(e.req.path) /\ TargetKind(e.req.path) = "file")
      => /\ e.served = e.req.path
         /\ e.resp.status = 200
         /\ e.resp.body = FileBody(TranslatePath(e.req.path).comps)

C5_OtherPathsUnrewritten ==
  \A e \in Exchanges :
    (e.req.method = "GET" /\ ~IsRootPath(e.req.path) /\ ~HasSpaPrefix(e.req.path))
      => /\ e.served = e.req.path
         /\ (TargetKind(e.req.path) = "none"
               => e.resp.status = 404 /\ e.resp.body = ErrorPage)

C5_Witness ==
  \E e \in Exchanges :
    /\ e.req.method = "GET"
    /\ e.req.path = <<"/", "favicon.ico">>
    /\ e.served = e.req.path
    /\ e.resp.status = 404

\* C6, as stated: an OPTIONS request to any path gets 200, an empty body and
\* the CORS headers, and handling it makes no filesystem call.
C6_OptionsAlways200 ==
  \A e \in Exchanges :
    e.req.method = "OPTIONS"
      => /\ e.resp.status = 200
         /\ e.resp.body = EmptyBody
         /\ HasCORS(e.resp)
         /\ e.fsOps = <<>>

\* C6, amended: handling an OPTIONS request makes no filesystem call; when
\* its request line names an HTTP version it gets 200, an empty body and the
\* CORS headers, and when it names none it gets the 400 error page without
\* headers.
C6_OptionsVersioned200 ==
  \A e \in Exchanges :
    e.req.method = "OPTIONS"
      => /\ e.fsOps = <<>>
         /\ IF e.req.version # "HTTP/0.9"
              THEN e.resp.status = 200 /\ e.resp.body = EmptyBody /\ HasCORS(e.resp)
              ELSE e.resp.status = 400 /\ e.resp.headers = <<>>

C6_Witness ==
  \E e \in Exchanges :
    /\ e.req.method = "OPTIONS"
    /\ e.req.version = "HTTP/1.1"
    /\ e.req.path = <<"/", "public", "/", "research.html">>
    /\ files[<<"public", "research.html">>] = "file"
    /\ e.resp.status = 200
    /\ e.fsOps = <<>>

\* C7: with the document root missing the process exits with status 1, the
\* socket is never created and the working directory never changed; a socket
\* exists only after the check passed and the working directory is the
\* document root.
C7_MissingRootNeverBinds ==
  /\ rootKind = "missing"
       => /\ pc \in {"start", "exited"}
          /\ sock = "none"
          /\ cwd = StartDir
          /\ log = <<>>
          /\ (pc = "exited" => exitCode = 1 /\ out = <<"frontend_dir_not_found">>)
  /\ sock # "none" => rootKind # "missing" /\ cwd = FrontendDir

C7_Witness ==
  /\ rootKind = "missing"
  /\ pc = "exited"
  /\ exitCode = 1
  /\ sock = "none"

\* C8: when the bind fails because the port is in use, main prints the
\* "port already in use" message (not the generic one), never serves, and
\* returns with exit status 0.
C8_PortInUseDiagnostic ==
  bindError.cause = "in_use"
    => /\ Last(out) = "port_in_use"
       /\ pc = "stopped"
       /\ exitCode = 0
       /\ sock # "listening"
       /\ log = <<>>

Lifecycle ==
  IF pc \in {"start", "chdir", "bind"} THEN "not_started"
  ELSE IF pc = "serving" THEN "running"
  ELSE "stopped"

C9_LifecycleStep ==
  /\ Lifecycle # "stopped"
  /\ \/ Lifecycle' = Lifecycle
     \/ /\ Lifecycle = "not_started" /\ Lifecycle' = "running"
        /\ pc = "bind" /\ sock' = "listening" /\ bindError' = NoError
     \/ /\ Lifecycle = "running" /\ Lifecycle' = "stopped"
        /\ Last(out') = "server_stopped" /\ exitCode' = 0 /\ sock' = "closed"
        /\ pc' = "stopped"
     \/ /\ Lifecycle = "not_started" /\ Lifecycle' = "stopped"
        /\ \/ /\ pc = "bind" /\ bindError' # NoError /\ exitCode' = 0
              /\ Last(out') \in {"port_in_use", "server_error"}
           \/ pc = "start" /\ rootKind = "missing" /\ exitCode' = 1
           \/ pc = "chdir" /\ rootKind = "file" /\ exitCode' = 1
  /\ Lifecycle = "running" => (Lifecycle' = "running" <=> log' # log)

ReadOps == {"exists", "isdir", "isfile", "open", "listdir"}

====
